---- MODULE Spec2Model ----
(***************************************************************************)
(* A model of leafmap.Map (src/leafmap/leafmap.py): the map widget's       *)
(* layers, controls, view and instance attributes, and the convenience     *)
(* methods that validate their arguments and delegate to the widget.       *)
(*                                                                         *)
(* Conventions.  A Python optional value is a sequence of at most one      *)
(* element: None is <<>>, a value v is <<v>>.  Every method call records   *)
(* its arguments in `call`, the exception the caller observes in `exc`     *)
(* ("none" when the call returns) and the returned value in `ret`.         *)
(* Files, URLs and CSV contents are the environment: they are inputs of    *)
(* the calls, described by what the code asks of them (does the path       *)
(* exist, does it start with "http", which extension, ...).                *)
(***************************************************************************)
EXTENDS Integers, Sequences, FiniteSets, TLC

VARIABLES
    kwargs,         \* the keyword arguments Map(**kwargs) was constructed with
    layers,         \* self.layers: sequence of layer objects
    controls,       \* self.controls: sequence of control objects
    center,         \* self.center: <<lat, lon>>
    zoom,           \* self.zoom
    default_style,  \* self.default_style["cursor"]
    attrs,          \* instance attributes created after construction
    legend_widget,  \* self.legend_widget  (meaningful when "legend" \in attrs)
    legend_control, \* self.legend_control (meaningful when "legend" \in attrs)
    last_click,     \* self.last_click     (meaningful when "clicks" \in attrs)
    all_clicks,     \* self.all_clicks     (meaningful when "clicks" \in attrs)
    handlers,       \* the interaction callbacks registered with on_interaction
    next_obj,       \* identity given to the next layer object created
    call,           \* the last method call and its arguments
    exc,            \* the exception the caller of the last call observed
    ret             \* the value the last call returned

vars == <<kwargs, layers, controls, center, zoom, default_style, attrs,
          legend_widget, legend_control, last_click, all_clicks, handlers,
          next_obj, call, exc, ret>>

\* Everything a method that only reads the map leaves alone.
mapState == <<layers, controls, center, zoom, default_style, attrs,
              legend_widget, legend_control, last_click, all_clicks, handlers>>

(***************************************************************************)
(* Bounds of the model.                                                    *)
(***************************************************************************)
MaxLayers == 3      \* layers on the map, the two of the constructor included
MaxControls == 8    \* controls on the map, those of the constructor included
MaxClicks == 2      \* map interactions dispatched to the handlers
MaxHandlers == 2    \* calls of add_maker_cluster
MaxLegends == 1     \* legends on the map
MaxDropdowns == 1   \* calls of basemap_demo
MaxMosaics == 1     \* mosaic layers on the map

None == <<>>
Some(v) == <<v>>

(***************************************************************************)
(* Layer and control objects.  obj is the object's identity; url is the    *)
(* tile service of a tile layer ("" for a layer that has none).            *)
(***************************************************************************)
Layer(obj, kind, name, url) ==
    [obj |-> obj, kind |-> kind, name |-> name, url |-> url,
     handler |-> "none", data |-> <<>>, markers |-> <<>>]

\* A GeoJSON layer: the features it shows (data, described by the reader that
\* produced them) and the feature handler registered on it.
GeoJSONLayer(obj, name, data, handler) ==
    [Layer(obj, "GeoJSON", name, "") EXCEPT !.data = <<data>>, !.handler = handler]

\* A marker cluster with its markers.
ClusterLayer(obj, name, markers) ==
    [Layer(obj, "MarkerCluster", name, "") EXCEPT !.markers = markers]

Control(kind, position) == [kind |-> kind, position |-> position]

GoogleUrls == {"google_m", "google_y", "google_p", "google_s"}

\* ipyleaflet.Map starts with its default base layer, the OpenStreetMap tiles.
DefaultLayer == Layer(0, "TileLayer", "OpenStreetMap.Mapnik", "osm")

\* from .basemaps import basemap_tiles: name -> a TileLayer object shared by
\* every use of that name.
BasemapKeys == {"ROADMAP", "HYBRID", "ESRI"}

basemap_tiles ==
    [k \in BasemapKeys |->
        CASE k = "ROADMAP" -> Layer(1, "TileLayer", "Google Maps", "google_m")
          [] k = "HYBRID"  -> Layer(2, "TileLayer", "Google Satellite", "google_y")
          [] k = "ESRI"    -> Layer(3, "TileLayer", "Esri Satellite", "esri")]

(***************************************************************************)
(* Map.__init__                                                            *)
(***************************************************************************)
\* The constructions explored: no argument, the add_google_map keyword of the
\* class docstring, every branch of the google_map keyword, and the control
\* switches on and off.
CtorInputs ==
    { <<>>,
      [add_google_map |-> FALSE],
      [add_google_map |-> TRUE],
      [google_map |-> "ROADMAP"],
      [google_map |-> "hybrid"],
      [google_map |-> "TERRAIN"],
      [google_map |-> "SATELLITE"],
      [google_map |-> "OSM", add_google_map |-> FALSE],
      [center |-> <<20, 10>>, zoom |-> 6, layers_control |-> TRUE],
      [fullscreen_control |-> FALSE, draw_control |-> FALSE,
       measure_control |-> FALSE, scale_control |-> FALSE,
       toolbar_control |-> FALSE] }

\* kwargs[key] after `if key not in kwargs: kwargs[key] = default`
Setdefault(kw, key, default) == IF key \in DOMAIN kw THEN kw[key] ELSE default

\* str.upper() on the google_map values explored
Upper(s) ==
    CASE s = "hybrid" -> "HYBRID"
      [] s = "roadmap" -> "ROADMAP"
      [] s = "terrain" -> "TERRAIN"
      [] s = "satellite" -> "SATELLITE"
      [] OTHER -> s

\* from .toolbar import main_toolbar: adds the toolbar's widget control.
main_toolbar == <<Control("Toolbar", "topright")>>

CtorControls(kw) ==
    (IF Setdefault(kw, "layers_control", FALSE)
        THEN <<Control("LayersControl", "topright")>> ELSE <<>>)
    \o (IF Setdefault(kw, "fullscreen_control", TRUE)
        THEN <<Control("FullScreenControl", "topleft")>> ELSE <<>>)
    \o (IF Setdefault(kw, "draw_control", TRUE)
        THEN <<Control("DrawControl", "topleft")>> ELSE <<>>)
    \o (IF Setdefault(kw, "measure_control", TRUE)
        THEN <<Control("MeasureControl", "topleft")>> ELSE <<>>)
    \o (IF Setdefault(kw, "scale_control", TRUE)
        THEN <<Control("ScaleControl", "bottomleft")>> ELSE <<>>)
    \o (IF Setdefault(kw, "toolbar_control", TRUE)
        THEN main_toolbar ELSE <<>>)

\* The tile layer the constructor adds (lines 79-117).
CtorLayer(kw) ==
    IF "google_map" \notin DOMAIN kw
    THEN Layer(4, "TileLayer", "Google Maps", "google_m")
    ELSE CASE Upper(kw.google_map) = "ROADMAP"
                -> Layer(4, "TileLayer", "Google Maps", "google_m")
           [] Upper(kw.google_map) = "HYBRID"
                -> Layer(4, "TileLayer", "Google Satellite", "google_y")
           [] Upper(kw.google_map) = "TERRAIN"
                -> Layer(4, "TileLayer", "Google Terrain", "google_p")
           [] Upper(kw.google_map) = "SATELLITE"
                -> Layer(4, "TileLayer", "Google Satellite", "google_s")
           [] OTHER
                -> Layer(4, "TileLayer", "Google Maps", "google_m")

Init ==
    /\ kwargs \in CtorInputs
    /\ center = Setdefault(kwargs, "center", <<40, -100>>)
    /\ zoom = Setdefault(kwargs, "zoom", 4)
    /\ controls = CtorControls(kwargs)
    /\ layers = <<DefaultLayer, CtorLayer(kwargs)>>
    /\ default_style = "grab"
    /\ attrs = {}
    /\ legend_widget = None
    /\ legend_control = None
    /\ last_click = None
    /\ all_clicks = None
    /\ handlers = <<>>
    /\ next_obj = 5
    /\ call = [op |-> "__init__"]
    /\ exc = "none"
    /\ ret = None

(***************************************************************************)
(* Map.set_center                                                          *)
(***************************************************************************)
Lons == {-100}
Lats == {40, 20}
Zooms == {None, Some(6)}

SetCenterView_lonlat(lon, lat) == <<lon, lat>>

SetCenterView(lon, lat) == <<lat, lon>>

SetCenterZoom(z, old) == IF z # None THEN z[1] ELSE old

SetCenter ==
    \E lon \in Lons, lat \in Lats, z \in Zooms :
        /\ call' = [op |-> "set_center", lon |-> lon, lat |-> lat, zoom |-> z]
        /\ center' = SetCenterView(lon, lat)
        /\ zoom' = SetCenterZoom(z, zoom)
        /\ exc' = "none"
        /\ ret' = None
        /\ UNCHANGED <<kwargs, layers, controls, default_style, attrs,
                       legend_widget, legend_control, last_click, all_clicks,
                       handlers, next_obj>>

(***************************************************************************)
(* Map.find_layer, Map.find_layer_index                                    *)
(***************************************************************************)
LayerNames == {"Untitled", "Google Maps", "Missing"}

\* for layer in layers: if layer.name == name: return layer;  return None
RECURSIVE find_layer(_, _)
find_layer(ls, name) ==
    IF ls = <<>> THEN None
    ELSE IF Head(ls).name = name THEN Some(Head(ls))
    ELSE find_layer(Tail(ls), name)

\* for index, layer in enumerate(layers): if layer.name == name: return index
\* return -1          (enumerate counts from 0; i is the 1-based position)
RECURSIVE find_layer_index_from(_, _, _)
find_layer_index_from(ls, name, i) ==
    IF i > Len(ls) THEN -1
    ELSE IF ls[i].name = name THEN i - 1
    ELSE find_layer_index_from(ls, name, i + 1)

\* enumerate(layers, 1) in place of enumerate(layers)
find_layer_index_onebased(ls, name) ==
    IF find_layer_index_from(ls, name, 1) = -1 THEN -1
    ELSE find_layer_index_from(ls, name, 1) + 1

find_layer_index(ls, name) == find_layer_index_from(ls, name, 1)

FindLayer ==
    \E name \in LayerNames :
        /\ call' = [op |-> "find_layer", name |-> name]
        /\ ret' = find_layer(layers, name)
        /\ exc' = "none"
        /\ UNCHANGED <<kwargs, mapState, next_obj>>

FindLayerIndex ==
    \E name \in LayerNames :
        /\ call' = [op |-> "find_layer_index", name |-> name]
        /\ ret' = Some(find_layer_index(layers, name))
        /\ exc' = "none"
        /\ UNCHANGED <<kwargs, mapState, next_obj>>

(***************************************************************************)
(* The part of the map the layer loaders change, passed through nested     *)
(* calls: m = [layers, controls, default_style, next_obj], and the result  *)
(* of a call, the same fields with the exception the caller observes.      *)
(***************************************************************************)
Self == [layers |-> layers, controls |-> controls,
         default_style |-> default_style, next_obj |-> next_obj]

Returns(m) == [exc |-> "none"] @@ m

Raises(m, e) == [exc |-> e] @@ m

\* ipyleaflet.Map.add_layer / add_control append the object.
add_layer(m, layer) ==
    [m EXCEPT !.layers = Append(@, layer), !.next_obj = @ + 1]

add_control(m, control) == [m EXCEPT !.controls = Append(@, control)]

\* The effect of a loader on the variables; a call that would grow the map
\* beyond the bounds of the model is not taken.
Apply(r) ==
    /\ Len(r.layers) <= MaxLayers
    /\ Len(r.controls) <= MaxControls
    /\ layers' = r.layers
    /\ controls' = r.controls
    /\ default_style' = r.default_style
    /\ next_obj' = r.next_obj
    /\ exc' = r.exc
    /\ ret' = None
    /\ UNCHANGED <<kwargs, center, zoom, attrs, legend_widget, legend_control,
                   last_click, all_clicks, handlers>>

(***************************************************************************)
(* Map.add_tile_layer                                                      *)
(***************************************************************************)
TileUrls == {"user_tiles"}

add_tile_layer(m, url, name) ==
    Returns(add_layer(m, Layer(m.next_obj, "TileLayer", name, url)))

AddTileLayer ==
    \E url \in TileUrls, name \in {"Untitled", "Roads"} :
        /\ call' = [op |-> "add_tile_layer", url |-> url, name |-> name]
        /\ Apply(add_tile_layer(Self, url, name))

(***************************************************************************)
(* Map.add_basemap                                                         *)
(***************************************************************************)
\* The argument: a string (a key of basemap_tiles or not), or an unhashable
\* value such as a list, for which `basemap in basemap_tiles.keys()` raises.
BasemapArgs ==
    {[type |-> "str", v |-> k] : k \in BasemapKeys \cup {"MAPNIK"}}
    \cup {[type |-> "list"]}

OnMap(ls, layer) == \E i \in 1..Len(ls) : ls[i].obj = layer.obj

add_basemap(m, basemap) ==
    IF basemap.type # "str"
    THEN Raises(m, "ValueError")
    ELSE IF basemap.v \in DOMAIN basemap_tiles
            /\ ~OnMap(m.layers, basemap_tiles[basemap.v])
         THEN Returns([m EXCEPT !.layers = Append(@, basemap_tiles[basemap.v])])
         ELSE Returns(m)

AddBasemap ==
    \E basemap \in BasemapArgs :
        /\ call' = [op |-> "add_basemap", basemap |-> basemap]
        /\ Apply(add_basemap(Self, basemap))

(***************************************************************************)
(* Paths and URLs given to the loaders.  http: the string starts with      *)
(* "http"; exists: os.path.exists of the path; loads: the reader (json,    *)
(* requests, shp_to_geojson, vector_to_geojson) can read it; ext: the      *)
(* extension os.path.splitext finds.                                       *)
(***************************************************************************)
Path(http, exists, loads, ext) ==
    [type |-> "str", http |-> http, exists |-> exists, loads |-> loads, ext |-> ext]

Paths ==
    { Path(FALSE, FALSE, FALSE, ".geojson"),    \* local, missing
      Path(FALSE, TRUE, TRUE, ".geojson"),      \* local, present, readable
      Path(FALSE, TRUE, FALSE, ".geojson"),     \* local, present, unreadable
      Path(FALSE, TRUE, TRUE, ".SHP"),
      Path(FALSE, TRUE, TRUE, ".kml"),
      Path(TRUE, FALSE, TRUE, ".geojson"),      \* URL that answers with JSON
      Path(TRUE, FALSE, FALSE, ".kml") }        \* URL that does not answer

\* str.lower() on the extensions explored
Lower(s) ==
    CASE s = ".SHP" -> ".shp"
      [] s = ".KML" -> ".kml"
      [] OTHER -> s

\* The features a reader produced: which reader, and the filters it was given.
Features(reader, bbox, mask, rows) ==
    [reader |-> reader, bbox |-> bbox, mask |-> mask, rows |-> rows]

\* A dictionary holding GeoJSON
Dict(data) == [type |-> "dict", data |-> data]

\* info_mode: the two documented modes, None, and another string
InfoModes == {"on_hover", "on_click", "None", "hover"}

(***************************************************************************)
(* Map.add_geojson                                                         *)
(***************************************************************************)
\* Lines 1098-1114: the exception raised inside the try block that loads
\* the data ("none" when the data is loaded).
GeojsonLoadRaises(in_geojson) ==
    IF in_geojson.type = "str"
    THEN IF in_geojson.http
         THEN IF in_geojson.loads THEN "none" ELSE "RequestError"
         ELSE IF ~in_geojson.exists THEN "FileNotFoundError"
              ELSE IF in_geojson.loads THEN "none" ELSE "JSONDecodeError"
    ELSE IF in_geojson.type = "dict" THEN "none"
    ELSE "TypeError"

\* Lines 1115-1116: except Exception as e: raise Exception(e)
Reraised(e) == IF e = "none" THEN "none" ELSE "Exception"

GeojsonLoadError(in_geojson) == Reraised(GeojsonLoadRaises(in_geojson))

GeojsonData(in_geojson) ==
    IF in_geojson.type = "str"
    THEN IF in_geojson.http
         THEN Features("requests.get", None, None, None)
         ELSE Features("json.load", None, None, None)
    ELSE in_geojson.data

ShowsInfo_anystring(info_mode) == info_mode # "None"

\* Line 1171
ShowsInfo(info_mode) == info_mode \in {"on_hover", "on_click"}

\* Lines 1215-1218
GeojsonHandler(info_mode) ==
    IF info_mode = "on_hover" THEN "on_hover"
    ELSE IF info_mode = "on_click" THEN "on_click"
    ELSE "none"

add_geojson(m, in_geojson, layer_name, info_mode) ==
    IF GeojsonLoadError(in_geojson) # "none"
    THEN Raises(m, GeojsonLoadError(in_geojson))
    ELSE LET m1 == IF ShowsInfo(info_mode)
                   THEN add_control(m, Control("AttributeInfo", "bottomright"))
                   ELSE m
             geojson == GeoJSONLayer(m.next_obj, layer_name,
                                     GeojsonData(in_geojson),
                                     GeojsonHandler(info_mode))
         IN  Returns(add_layer(m1, geojson))

GeojsonArgs ==
    Paths \cup {Dict(Features("caller", None, None, None)), [type |-> "list"]}

AddGeojson ==
    \E in_geojson \in GeojsonArgs, info_mode \in InfoModes :
        /\ call' = [op |-> "add_geojson", in_geojson |-> in_geojson,
                    layer_name |-> "Untitled", info_mode |-> info_mode]
        /\ Apply(add_geojson(Self, in_geojson, "Untitled", info_mode))

(***************************************************************************)
(* Map.add_shapefile                                                       *)
(***************************************************************************)
ShapefileMissing_unchecked(in_shp) == FALSE

\* Lines 1054-1056
ShapefileMissing(in_shp) == ~in_shp.exists

add_shapefile(m, in_shp, layer_name, info_mode) ==
    IF ShapefileMissing(in_shp)
    THEN Raises(m, "FileNotFoundError")
    ELSE IF ~in_shp.loads
    THEN Raises(m, "ReaderError")                  \* shp_to_geojson fails
    ELSE add_geojson(m, Dict(Features("shp_to_geojson", None, None, None)),
                     layer_name, info_mode)

AddShapefile ==
    \E in_shp \in Paths, info_mode \in InfoModes :
        /\ call' = [op |-> "add_shapefile", in_shp |-> in_shp,
                    layer_name |-> "Untitled", info_mode |-> info_mode]
        /\ Apply(add_shapefile(Self, in_shp, "Untitled", info_mode))

(***************************************************************************)
(* Map.add_vector                                                          *)
(***************************************************************************)
add_vector(m, filename, layer_name, bbox, mask, rows, info_mode) ==
    LET ext == Lower(filename.ext) IN
    IF ext = ".shp"
    THEN add_shapefile(m, filename, layer_name, info_mode)
    ELSE IF ext \in {".json", ".geojson"}
    THEN add_geojson(m, filename, layer_name, info_mode)
    ELSE IF ~filename.loads
    THEN Raises(m, "ReaderError")                  \* vector_to_geojson fails
    ELSE add_geojson(m, Dict(Features("vector_to_geojson", bbox, mask, rows)),
                     layer_name, info_mode)

\* The filters explored: none, a bounding box with a row count, a mask.
Filters ==
    { [bbox |-> None, mask |-> None, rows |-> None],
      [bbox |-> Some("bbox"), mask |-> None, rows |-> Some(5)],
      [bbox |-> None, mask |-> Some("mask"), rows |-> None] }

AddVector ==
    \E filename \in Paths, f \in Filters :
        /\ call' = [op |-> "add_vector", filename |-> filename,
                    layer_name |-> "Untitled", bbox |-> f.bbox, mask |-> f.mask,
                    rows |-> f.rows, info_mode |-> "on_hover"]
        /\ Apply(add_vector(Self, filename, "Untitled", f.bbox, f.mask, f.rows,
                            "on_hover"))

(***************************************************************************)
(* Map.add_kml                                                             *)
(***************************************************************************)
\* Lines 1247-1249
KmlMissing(in_kml) == ~in_kml.exists

add_kml(m, in_kml, layer_name, info_mode) ==
    IF KmlMissing(in_kml)
    THEN Raises(m, "FileNotFoundError")
    ELSE add_vector(m, in_kml, layer_name, None, None, None, info_mode)

AddKml ==
    \E in_kml \in Paths, info_mode \in InfoModes :
        /\ call' = [op |-> "add_kml", in_kml |-> in_kml,
                    layer_name |-> "Untitled", info_mode |-> info_mode]
        /\ Apply(add_kml(Self, in_kml, "Untitled", info_mode))

(***************************************************************************)
(* Map.add_xy_data                                                         *)
(***************************************************************************)
\* A CSV file or URL: http/exists/loads as for Paths, the column names
\* pandas reads and the rows (one record per row).
Csv(http, exists, loads, rows) ==
    [http |-> http, exists |-> exists, loads |-> loads,
     cols |-> {"longitude", "latitude", "name"}, rows |-> rows]

CsvRows == << [longitude |-> 10, latitude |-> 20, name |-> "a"],
              [longitude |-> 30, latitude |-> 40, name |-> "b"] >>

Csvs ==
    { Csv(FALSE, FALSE, FALSE, <<>>),       \* local, missing
      Csv(FALSE, TRUE, TRUE, CsvRows),      \* local, present
      Csv(FALSE, TRUE, FALSE, <<>>),        \* local, present, not a CSV
      Csv(TRUE, FALSE, TRUE, CsvRows) }     \* URL

XArgs == {"longitude", "lon"}
YArgs == {"latitude", "lat"}
LabelArgs == {None, Some("name"), Some("title")}

XyDataError_yfirst(in_csv, x, y, label) ==
    IF ~in_csv.http /\ ~in_csv.exists THEN "FileNotFoundError"
    ELSE IF ~in_csv.loads THEN "ReaderError"
    ELSE IF y \notin in_csv.cols THEN "ValueError: y"
    ELSE IF x \notin in_csv.cols THEN "ValueError: x"
    ELSE IF label # None /\ label[1] \notin in_csv.cols THEN "ValueError: label"
    ELSE "none"

\* Lines 1358-1373: the exception of the validation with the argument its
\* message names, "none" when the validation passes.
XyDataError(in_csv, x, y, label) ==
    IF ~in_csv.http /\ ~in_csv.exists THEN "FileNotFoundError"
    ELSE IF ~in_csv.loads THEN "ReaderError"        \* pd.read_csv fails
    ELSE IF x \notin in_csv.cols THEN "ValueError: x"
    ELSE IF y \notin in_csv.cols THEN "ValueError: y"
    ELSE IF label # None /\ label[1] \notin in_csv.cols THEN "ValueError: label"
    ELSE "none"

\* Lines 1377-1390: one marker per row, located at (row[y], row[x])
XyMarkers(in_csv, x, y, label) ==
    [i \in 1..Len(in_csv.rows) |->
        [location |-> <<in_csv.rows[i][y], in_csv.rows[i][x]>>,
         popup |-> IF label # None THEN Some(in_csv.rows[i][label[1]]) ELSE None]]

add_xy_data(m, in_csv, x, y, label, layer_name) ==
    IF XyDataError(in_csv, x, y, label) # "none"
    THEN Raises(m, XyDataError(in_csv, x, y, label))
    ELSE LET m1 == [m EXCEPT !.default_style = "wait"]
             marker_cluster == ClusterLayer(m.next_obj, layer_name,
                                            XyMarkers(in_csv, x, y, label))
             m2 == add_layer(m1, marker_cluster)
         IN  Returns([m2 EXCEPT !.default_style = "default"])

AddXyData ==
    \E in_csv \in Csvs, x \in XArgs, y \in YArgs, label \in LabelArgs :
        /\ call' = [op |-> "add_xy_data", in_csv |-> in_csv, x |-> x, y |-> y,
                    label |-> label, layer_name |-> "Marker cluster"]
        /\ Apply(add_xy_data(Self, in_csv, x, y, label, "Marker cluster"))

(***************************************************************************)
(* Map.add_legend                                                          *)
(*                                                                         *)
(* Argument values carry the Python type the code tests: NoneType, list    *)
(* (items), dict (items: <<key, color>> pairs in insertion order) or str.  *)
(* A color is a string, of which the code reads whether it starts with "#" *)
(* and its length (v tells colors apart), an RGB tuple, or an int.         *)
(***************************************************************************)
NoneArg == [type |-> "NoneType"]
ListArg(items) == [type |-> "list", items |-> items]
DictArg(items) == [type |-> "dict", items |-> items]
StrArg == [type |-> "str"]

Color(hash, len, v) == [type |-> "str", hash |-> hash, len |-> len, v |-> v]
Hex7(v) == Color(TRUE, 7, v)        \* "#RRGGBB"
Hex6(v) == Color(FALSE, 6, v)       \* "RRGGBB"
Named(v) == Color(FALSE, 3, v)      \* "red"
Rgb(v) == [type |-> "tuple", len |-> 3, v |-> v, ok |-> TRUE]
BadRgb(v) == [type |-> "tuple", len |-> 3, v |-> v, ok |-> FALSE]  \* ("a", 0, 0)
IntColor == [type |-> "int"]

\* from .common import rgb_to_hex: the 6-digit hex string of an RGB tuple
rgb_to_hex(c) == Hex6(c.v)

\* from .legends import builtin_legends
builtin_legends ==
    [k \in {"NLCD"} |->
        DictArg(<< <<"Open Water", Hex6(11)>>, <<"Developed", Hex6(21)>> >>)]

\* Lines 586, 607-613: the default keys and colors
DefaultKeys == <<"One", "Two", "Three", "Four", "ect">>
DefaultColors == <<Hex7(1), Hex7(2), Hex7(3), Hex7(4), Hex7(5)>>

\* all(isinstance(item, tuple) for item in items)
AllTuples(items) == \A i \in 1..Len(items) : items[i].type = "tuple"

\* all((item.startswith("#") and len(item) == 7) for item in items): the
\* items are tested in order up to the first that fails; an item that is no
\* string has no startswith.
RECURSIVE AllHex7(_)
AllHex7(items) ==
    IF items = <<>> THEN "True"
    ELSE IF Head(items).type # "str" THEN "AttributeError"
    ELSE IF ~(Head(items).hash /\ Head(items).len = 7) THEN "False"
    ELSE AllHex7(Tail(items))

\* all((len(item) == 6) for item in items): an int has no len.
RECURSIVE AllLen6(_)
AllLen6(items) ==
    IF items = <<>> THEN "True"
    ELSE IF Head(items).type = "int" THEN "TypeError"
    ELSE IF Head(items).len # 6 THEN "False"
    ELSE AllLen6(Tail(items))

\* [rgb_to_hex(x) for x in colors] inside try/except: print(e): the list is
\* replaced only when every conversion succeeds.
TryRgbToHex(colors) ==
    IF \A i \in 1..Len(colors) : colors[i].ok
    THEN [i \in 1..Len(colors) |-> rgb_to_hex(colors[i])]
    ELSE colors

\* The outcome of a stage of add_legend: the call goes on ("ok"), prints a
\* warning and returns ("warn"), or raises (the exception's name).
Stage(status, keys, colors) == [status |-> status, keys |-> keys, colors |-> colors]

\* Lines 581-586
LegendKeysStage(legend_keys) ==
    IF legend_keys.type # "NoneType"
    THEN IF legend_keys.type # "list"
         THEN Stage("warn", <<>>, <<>>)
         ELSE Stage("ok", legend_keys.items, <<>>)
    ELSE Stage("ok", DefaultKeys, <<>>)

\* Lines 588-613
LegendColorsStage(st, legend_colors) ==
    IF legend_colors.type # "NoneType"
    THEN IF legend_colors.type # "list"
         THEN Stage("warn", st.keys, <<>>)
         ELSE IF AllTuples(legend_colors.items)
         THEN Stage("ok", st.keys, TryRgbToHex(legend_colors.items))
         ELSE IF AllHex7(legend_colors.items) = "True"
         THEN Stage("ok", st.keys, legend_colors.items)
         ELSE IF AllHex7(legend_colors.items) = "AttributeError"
         THEN Stage("AttributeError", st.keys, <<>>)
         ELSE IF AllLen6(legend_colors.items) = "True"
         THEN Stage("ok", st.keys, legend_colors.items)
         ELSE IF AllLen6(legend_colors.items) = "TypeError"
         THEN Stage("TypeError", st.keys, <<>>)
         ELSE Stage("warn", st.keys, <<>>)
    ELSE Stage("ok", st.keys, DefaultColors)

\* Lines 615-617
LegendLengthStage(st) ==
    IF Len(st.keys) # Len(st.colors) THEN Stage("warn", st.keys, st.colors) ELSE st

DictKeys(d) == [i \in 1..Len(d.items) |-> d.items[i][1]]
DictValues(d) == [i \in 1..Len(d.items) |-> d.items[i][2]]

\* Lines 619-631: a builtin legend replaces legend_dict
LegendDictGiven(legend_dict, builtin_legend) ==
    IF builtin_legend # None /\ builtin_legend[1] \in DOMAIN builtin_legends
    THEN builtin_legends[builtin_legend[1]]
    ELSE legend_dict

LegendBuiltinStage(st, builtin_legend) ==
    IF builtin_legend # None
    THEN IF builtin_legend[1] \notin DOMAIN builtin_legends
         THEN Stage("warn", st.keys, st.colors)
         ELSE Stage("ok", DictKeys(builtin_legends[builtin_legend[1]]),
                          DictValues(builtin_legends[builtin_legend[1]]))
    ELSE st

\* Lines 633-644
LegendDictStage(st, legend_dict) ==
    IF legend_dict.type # "NoneType"
    THEN IF legend_dict.type # "dict"
         THEN Stage("warn", st.keys, st.colors)
         ELSE IF AllTuples(DictValues(legend_dict))
         THEN Stage("ok", DictKeys(legend_dict), TryRgbToHex(DictValues(legend_dict)))
         ELSE Stage("ok", DictKeys(legend_dict), DictValues(legend_dict))
    ELSE st

AllowedPositions == {"topleft", "topright", "bottomleft", "bottomright"}

\* Lines 646-658
LegendPositionStage(st, position) ==
    IF position \notin AllowedPositions THEN Stage("warn", st.keys, st.colors) ELSE st

\* Lines 670-677: one entry per key; color.startswith exists for strings only
LegendEntry(key, color) ==
    [key |-> key,
     color |-> IF ~color.hash THEN Color(TRUE, color.len + 1, color.v) ELSE color]

LegendContentStage(st) ==
    IF \E i \in 1..Len(st.keys) : st.colors[i].type # "str"
    THEN Stage("AttributeError", st.keys, st.colors)
    ELSE st

LegendContent(st) == [i \in 1..Len(st.keys) |-> LegendEntry(st.keys[i], st.colors[i])]

\* The validation, stage after stage, stopping at the first that does not go on.
Then(st, next) == IF st.status = "ok" THEN next ELSE st

LegendStages(a) ==
    LET s1 == LegendKeysStage(a.legend_keys)
        s2 == Then(s1, LegendColorsStage(s1, a.legend_colors))
        s3 == Then(s2, LegendLengthStage(s2))
        s4 == Then(s3, LegendBuiltinStage(s3, a.builtin_legend))
        s5 == Then(s4, LegendDictStage(s4, LegendDictGiven(a.legend_dict,
                                                           a.builtin_legend)))
        s6 == Then(s5, LegendPositionStage(s5, a.position))
    IN  Then(s6, LegendContentStage(s6))

\* Lines 549-575: the layout values; min_width is assigned only when the
\* keyword is absent.
Kw(kw, key) == IF key \in DOMAIN kw THEN Some(kw[key]) ELSE None

LegendLayout(kw) ==
    LET height == Kw(kw, "height")
        width == Kw(kw, "width")
    IN  [max_width |-> IF width = None THEN Some("300px") ELSE Kw(kw, "max_width"),
         min_width |-> None,
         max_height |-> IF height = None THEN Some("400px") ELSE Kw(kw, "max_height"),
         min_height |-> Kw(kw, "min_height"),
         height |-> height,
         width |-> width]

MinWidthUnbound(kw) == "min_width" \in DOMAIN kw

LegendWidget(a, st) ==
    [layout |-> LegendLayout(a.kwargs), title |-> a.legend_title,
     entries |-> LegendContent(st)]

LegendControl(a, st) ==
    [kind |-> "Legend", position |-> a.position, widget |-> LegendWidget(a, st)]

\* The whole call: [exc, warned, added]; warned: the call printed why it
\* rejects its input and returned; added holds the legend control when the
\* call added one.
add_legend(a) ==
    LET st == LegendStages(a) IN
    IF ~a.template
    THEN [exc |-> "none", warned |-> TRUE, added |-> None]
    ELSE IF st.status = "warn"
    THEN [exc |-> "none", warned |-> TRUE, added |-> None]
    ELSE IF st.status # "ok"
    THEN [exc |-> st.status, warned |-> FALSE, added |-> None]
    ELSE IF MinWidthUnbound(a.kwargs)
    THEN [exc |-> "Exception", warned |-> FALSE, added |-> None]  \* lines 707-708
    ELSE [exc |-> "none", warned |-> FALSE, added |-> Some(LegendControl(a, st))]

LegendArgs(dict, keys, colors, position, builtin, kw, template) ==
    [legend_title |-> "Legend", legend_dict |-> dict,
     legend_keys |-> keys, legend_colors |-> colors,
     position |-> position, builtin_legend |-> builtin,
     kwargs |-> kw, template |-> template]

DictArgs ==
    { NoneArg,
      DictArg(<< <<"a", Hex7(1)>>, <<"b", Hex6(2)>> >>),
      DictArg(<< <<"a", Rgb(1)>> >>),
      StrArg }

KeysArgs == { NoneArg, ListArg(<<"k1", "k2">>), ListArg(<<"k1">>), StrArg }

ColorsArgs ==
    { NoneArg,
      ListArg(<<Hex7(1), Hex7(2)>>),
      ListArg(<<Hex6(1), Hex6(2)>>),
      ListArg(<<Rgb(1), Rgb(2)>>),
      ListArg(<<BadRgb(1), Rgb(2)>>),
      ListArg(<<Rgb(1), Hex7(2)>>),
      ListArg(<<Hex7(1), Rgb(2)>>),
      ListArg(<<Named(1), Named(2)>>),
      ListArg(<<Hex6(1), IntColor>>),
      ListArg(<<Hex6(1)>>),
      StrArg }

SizingArgs ==
    { <<>>,
      [width |-> "200px"],
      [max_width |-> "250px"],
      [height |-> "100px", max_height |-> "150px"],
      [min_height |-> "50px"],
      [min_width |-> "100px"],
      [width |-> "200px", max_width |-> "250px", height |-> "100px"] }

\* The calls explored: every combination of legend_dict, legend_keys and
\* legend_colors at the default position, and with a dictionary at another;
\* every combination of position, builtin_legend and legend_dict; the sizing
\* keywords with and without a legend_dict; a missing template.
LegendCalls ==
    { LegendArgs(d, k, c, "bottomright", None, <<>>, TRUE) :
        d \in DictArgs, k \in KeysArgs, c \in ColorsArgs }
    \cup
    { LegendArgs(DictArg(<< <<"a", Hex7(1)>>, <<"b", Hex6(2)>> >>), k, c,
                 "topleft", None, <<>>, TRUE) :
        k \in KeysArgs, c \in ColorsArgs }
    \cup
    { LegendArgs(d, NoneArg, NoneArg, pos, b, <<>>, TRUE) :
        d \in DictArgs, pos \in {"bottomright", "topright", "center"},
        b \in {None, Some("NLCD"), Some("Nope")} }
    \cup
    { LegendArgs(d, NoneArg, NoneArg, pos, None, kw, TRUE) :
        d \in {NoneArg, DictArg(<< <<"a", Hex7(1)>>, <<"b", Hex6(2)>> >>)},
        pos \in {"bottomleft", "center"}, kw \in SizingArgs }
    \cup
    { LegendArgs(d, NoneArg, NoneArg, "bottomright", None, <<>>, FALSE) :
        d \in {NoneArg, StrArg} }

\* What each explored call does (add_legend reads nothing of the map).
LegendOutcome == [a \in LegendCalls |-> add_legend(a)]

Legends(cs) == {i \in 1..Len(cs) : cs[i].kind = "Legend"}

AddLegend ==
    \E a \in LegendCalls :
        LET r == LegendOutcome[a] IN
        /\ Cardinality(Legends(controls)) < MaxLegends
        /\ call' = [op |-> "add_legend", args |-> a, warned |-> r.warned]
        /\ exc' = r.exc
        /\ ret' = None
        /\ IF r.added # None
           THEN /\ legend_widget' = Some(r.added[1].widget)
                /\ legend_control' = r.added
                /\ attrs' = attrs \cup {"legend"}
                /\ controls' = Append(controls, r.added[1])
           ELSE UNCHANGED <<legend_widget, legend_control, attrs, controls>>
        /\ UNCHANGED <<kwargs, layers, center, zoom, default_style, last_click,
                       all_clicks, handlers, next_obj>>

(***************************************************************************)
(* Map.add_maker_cluster and the interaction handler it registers          *)
(***************************************************************************)
\* The closure of one call: its arguments, its coordinates and markers lists
\* and the identity of its marker cluster.
Handler(event, add_marker, cluster) ==
    [event |-> event, add_marker |-> add_marker, coordinates |-> <<>>,
     markers |-> <<>>, cluster |-> cluster]

Marker(location) == [location |-> location, popup |-> None]

Events == {"click", "mousemove"}

\* Lines 453-476.  The method has no return statement.
AddMakerCluster ==
    \E event \in Events, add_marker \in BOOLEAN :
        LET marker_cluster == ClusterLayer(next_obj, "Marker Cluster", <<>>) IN
        /\ Len(handlers) < MaxHandlers
        /\ call' = [op |-> "add_maker_cluster", event |-> event,
                    add_marker |-> add_marker]
        /\ last_click' = <<>>
        /\ all_clicks' = <<>>
        /\ attrs' = attrs \cup {"clicks"}
        /\ layers' = IF add_marker THEN Append(layers, marker_cluster) ELSE layers
        /\ next_obj' = next_obj + 1
        /\ default_style' = "crosshair"
        /\ handlers' = Append(handlers, Handler(event, add_marker, next_obj))
        /\ exc' = "none"
        /\ ret' = None
        /\ UNCHANGED <<kwargs, controls, center, zoom, legend_widget,
                       legend_control>>

\* A handler that records every interaction type.
Records_anytype(h, type) == h.event = "click"

\* Lines 461-472: does this handler record the interaction?
Records(h, type) == h.event = "click" /\ type = "click"

\* The handler's closure after handle_interaction(type=..., coordinates=...)
HandleInteraction(h, type, latlon) ==
    IF Records(h, type)
    THEN [h EXCEPT !.coordinates = Append(@, latlon),
                   !.markers = IF h.add_marker THEN Append(@, Marker(latlon)) ELSE @]
    ELSE h

\* marker_cluster.markers = markers, for the clusters that are on the map
SetMarkers(ls, hs, type) ==
    [i \in 1..Len(ls) |->
        IF \E k \in 1..Len(hs) :
              Records(hs[k], type) /\ hs[k].add_marker /\ hs[k].cluster = ls[i].obj
        THEN LET k == CHOOSE k \in 1..Len(hs) : hs[k].cluster = ls[i].obj
             IN  [ls[i] EXCEPT !.markers = hs[k].markers]
        ELSE ls[i]]

\* The last of the handlers, in the order they were registered, that records
\* the interaction (0 when none does): its assignments to self.last_click and
\* self.all_clicks are the ones that remain.
LastRecording(hs, type) ==
    IF \E k \in 1..Len(hs) : Records(hs[k], type)
    THEN CHOOSE k \in 1..Len(hs) :
            /\ Records(hs[k], type)
            /\ \A j \in (k + 1)..Len(hs) : ~Records(hs[j], type)
    ELSE 0

Coordinates == {<<40, -100>>, <<20, 10>>}

\* The map dispatches an interaction to every registered callback, in the
\* order of registration.
Interact ==
    \E type \in Events, latlon \in Coordinates :
        LET hs == [k \in 1..Len(handlers) |->
                        HandleInteraction(handlers[k], type, latlon)]
            last == LastRecording(handlers, type)
        IN  /\ type = "click" =>
                  \A k \in 1..Len(handlers) : Len(handlers[k].coordinates) < MaxClicks
            /\ call' = [op |-> "interaction", type |-> type, coordinates |-> latlon]
            /\ handlers' = hs
            /\ layers' = SetMarkers(layers, hs, type)
            /\ last_click' = IF last # 0 THEN latlon ELSE last_click
            /\ all_clicks' = IF last # 0 THEN hs[last].coordinates ELSE all_clicks
            /\ exc' = "none"
            /\ ret' = None
            /\ UNCHANGED <<kwargs, controls, center, zoom, default_style, attrs,
                           legend_widget, legend_control, next_obj>>

(***************************************************************************)
(* Map.basemap_demo and the observer of its dropdown                       *)
(***************************************************************************)
\* The widget control holding the dropdown, and the dropdown's value.
Dropdown(value) == [kind |-> "Dropdown", position |-> "topright", value |-> value]

Dropdowns(cs) == {i \in 1..Len(cs) : cs[i].kind = "Dropdown"}

\* Lines 501-516
basemap_demo(m) == Returns(add_control(m, Dropdown("HYBRID")))

BasemapDemo ==
    /\ Cardinality(Dropdowns(controls)) < MaxDropdowns
    /\ call' = [op |-> "basemap_demo"]
    /\ Apply(basemap_demo(Self))

\* ipyleaflet.Map.substitute_layer(old, new): new takes the place of old; the
\* map refuses a layer list that holds the same layer twice.
substitute_layer(m, old, new) ==
    LET ls == [i \in 1..Len(m.layers) |->
                  IF m.layers[i].obj = old.obj THEN new ELSE m.layers[i]]
    IN  IF ~OnMap(m.layers, old)
        THEN Raises(m, "LayerException")
        ELSE IF \E i, j \in 1..Len(ls) : i # j /\ ls[i].obj = ls[j].obj
        THEN Raises(m, "LayerException")
        ELSE Returns([m EXCEPT !.layers = ls])

\* Lines 509-512: the observer of the dropdown's value
on_click(m, change) ==
    LET basemap_name == change.new
        old_basemap == m.layers[Len(m.layers)]
    IN  substitute_layer(m, old_basemap, basemap_tiles[basemap_name])

\* The user picks another entry of a dropdown: the value changes and the
\* observer runs.
SelectBasemap ==
    \E i \in Dropdowns(controls), name \in BasemapKeys :
        /\ name # controls[i].value
        /\ call' = [op |-> "select_basemap", new |-> name]
        /\ Apply(on_click([Self EXCEPT !.controls[i].value = name],
                          [old |-> controls[i].value, new |-> name]))

(***************************************************************************)
(* Map.add_COG_mosaic                                                      *)
(***************************************************************************)
\* A link to a COG and what the tiling service answers for it: lonlat, its
\* centre; center_ok, whether get_COG_center(link) returns; bounds, whether
\* get_COG_bounds(link) returns bounds ("ok"), returns None ("none") or raises.
CogLink(lonlat, center_ok, bounds) ==
    [lonlat |-> lonlat, center_ok |-> center_ok, bounds |-> bounds]

GoodLink == CogLink(<<10, 20>>, TRUE, "ok")
UnboundedLink == CogLink(<<-100, 40>>, TRUE, "none")
DeadLink == CogLink(<<10, 20>>, FALSE, "raises")

LinkLists ==
    { <<>>, <<GoodLink>>, <<UnboundedLink>>, <<DeadLink>>,
      <<GoodLink, UnboundedLink>>, <<GoodLink, DeadLink>> }

\* What the services answer for the call as a whole: mosaic, whether
\* get_COG_mosaic returns a tile URL; center, whether get_center returns.
Services == [mosaic : BOOLEAN, center : BOOLEAN]

\* Lines 369-374: the bounds of the links that have some
RECURSIVE FootprintCoords(_)
FootprintCoords(links) ==
    IF links = <<>> THEN <<>>
    ELSE (IF Head(links).bounds = "ok" THEN <<Head(links).lonlat>> ELSE <<>>)
         \o FootprintCoords(Tail(links))

\* Lines 376-385
Footprints(obj, coords) ==
    GeoJSONLayer(obj, "Footprints",
                 [reader |-> "coords_to_geojson", coords |-> coords], "none")

\* Lines 364-392: the centre of the view, after the footprint layer was added
\* or not.  The result is the map with exc and, when the centre was found,
\* center.
CogCenter(m, links, show_footprints, svc) ==
    IF show_footprints
    THEN IF \E i \in 1..Len(links) : links[i].bounds = "raises"
         THEN Raises(m, "Exception") @@ [center |-> None]
         ELSE LET coords == FootprintCoords(links)
                  m2 == add_layer(m, Footprints(m.next_obj, coords))
              IN  IF coords = <<>> \/ ~svc.center
                  THEN Raises(m2, "Exception") @@ [center |-> None]
                  ELSE Returns(m2) @@ [center |-> Some(Head(coords))]
    ELSE IF links = <<>>
         THEN Raises(m, "IndexError") @@ [center |-> None]
         ELSE IF ~links[1].center_ok
         THEN Raises(m, "Exception") @@ [center |-> None]
         ELSE Returns(m) @@ [center |-> Some(links[1].lonlat)]

\* Lines 353-394
add_COG_mosaic(m, links, name, show_footprints, svc) ==
    IF ~svc.mosaic
    THEN Raises(m, "Exception") @@ [center |-> None]
    ELSE CogCenter(add_layer(m, Layer(m.next_obj, "TileLayer", name, "mosaic")),
                   links, show_footprints, svc)

Mosaics(ls) == {i \in 1..Len(ls) : ls[i].url = "mosaic"}

AddCOGMosaic ==
    \E links \in LinkLists, show_footprints \in BOOLEAN, svc \in Services :
        LET r == add_COG_mosaic(Self, links, "Untitled", show_footprints, svc) IN
        /\ Cardinality(Mosaics(layers)) < MaxMosaics
        /\ call' = [op |-> "add_COG_mosaic", links |-> links,
                    show_footprints |-> show_footprints, services |-> svc]
        /\ layers' = r.layers
        /\ next_obj' = r.next_obj
        /\ exc' = r.exc
        /\ ret' = None
        /\ center' = IF r.center # None
                     THEN SetCenterView(r.center[1][1], r.center[1][2])
                     ELSE center
        /\ zoom' = IF r.center # None THEN 6 ELSE zoom
        /\ UNCHANGED <<kwargs, controls, default_style, attrs, legend_widget,
                       legend_control, last_click, all_clicks, handlers>>

(***************************************************************************)
(* Specifications.  Spec: the view and the layer list of a map built in    *)
(* every explored way.  SpecLoad: the loaders of vector and tabular data,  *)
(* on a map built with the default controls or with none.  SpecLegend:     *)
(* add_legend on such a map.  SpecClicks: add_maker_cluster and the map    *)
(* interactions dispatched to its handlers.  SpecDemo: basemap_demo, the   *)
(* selections in its dropdown, and calls that add layers.  SpecCOG:        *)
(* add_COG_mosaic and set_center.                                          *)
(***************************************************************************)
Next ==
    \/ SetCenter
    \/ FindLayer
    \/ FindLayerIndex
    \/ AddTileLayer
    \/ AddBasemap

Spec == Init /\ [][Next]_vars

InitLoad ==
    /\ Init
    /\ kwargs \in {<<>>, [fullscreen_control |-> FALSE, draw_control |-> FALSE,
                          measure_control |-> FALSE, scale_control |-> FALSE,
                          toolbar_control |-> FALSE]}

NextLoad ==
    \/ AddGeojson
    \/ AddShapefile
    \/ AddVector
    \/ AddKml
    \/ AddXyData

SpecLoad == InitLoad /\ [][NextLoad]_vars

NextLegend == AddLegend

SpecLegend == InitLoad /\ [][NextLegend]_vars

NextClicks ==
    \/ AddMakerCluster
    \/ Interact

SpecClicks == InitLoad /\ [][NextClicks]_vars

NextDemo ==
    \/ BasemapDemo
    \/ SelectBasemap
    \/ AddTileLayer
    \/ AddGeojson

SpecDemo == InitLoad /\ [][NextDemo]_vars

NextCOG ==
    \/ AddCOGMosaic
    \/ SetCenter

SpecCOG == InitLoad /\ [][NextCOG]_vars

(***************************************************************************)
(* Properties.                                                             *)
(***************************************************************************)
HasGoogleLayer == \E i \in 1..Len(layers) : layers[i].url \in GoogleUrls

\* The 0-based index of the first layer named name, -1 when there is none.
FirstNamed(ls, name) ==
    IF \E i \in 1..Len(ls) : ls[i].name = name
    THEN (CHOOSE i \in 1..Len(ls) :
              /\ ls[i].name = name
              /\ \A j \in 1..(i - 1) : ls[j].name # name) - 1
    ELSE -1

\* C2: add_geojson with a string that is not an http URL and names no
\* existing file raises FileNotFoundError and adds no layer and no control.
C2_MissingGeojsonRaisesFileNotFound ==
    [][ ( /\ call'.op = "add_geojson"
          /\ call'.in_geojson.type = "str"
          /\ ~call'.in_geojson.http
          /\ ~call'.in_geojson.exists )
        => ( /\ exc' = "FileNotFoundError"
             /\ layers' = layers
             /\ controls' = controls ) ]_vars

\* C3: add_shapefile and add_kml with a path that does not exist raise
\* FileNotFoundError and leave the map (layers, controls and the rest of its
\* state) as it was.
C3_MissingPathRaisesFirst ==
    [][ /\ (call'.op = "add_shapefile" /\ ~call'.in_shp.exists)
            => (exc' = "FileNotFoundError" /\ UNCHANGED <<mapState, next_obj>>)
        /\ (call'.op = "add_kml" /\ ~call'.in_kml.exists)
            => (exc' = "FileNotFoundError" /\ UNCHANGED <<mapState, next_obj>>)
      ]_vars

C3_Witness ==
    /\ call.op = "add_kml"
    /\ ~call.in_kml.exists
    /\ exc = "FileNotFoundError"
    /\ Len(layers) = 3

\* C4: add_xy_data reports input errors in a fixed order: FileNotFoundError
\* when in_csv is no http URL and does not exist; otherwise (the CSV being
\* read) ValueError for x when x is no column; otherwise ValueError for y
\* when y is no column; otherwise ValueError for label when label is not None
\* and no column.  In each case no layer is added and default_style is
\* unchanged.
C4_XyDataErrorOrder ==
    [][ call'.op = "add_xy_data" =>
        LET c == call'.in_csv
            x == call'.x
            y == call'.y
            label == call'.label
            missing == ~c.http /\ ~c.exists
            badx == x \notin c.cols
            bady == y \notin c.cols
            badlabel == label # None /\ label[1] \notin c.cols
            untouched == layers' = layers /\ default_style' = default_style
        IN  /\ missing => (exc' = "FileNotFoundError" /\ untouched)
            /\ (~missing /\ c.loads /\ badx)
                    => (exc' = "ValueError: x" /\ untouched)
            /\ (~missing /\ c.loads /\ ~badx /\ bady)
                    => (exc' = "ValueError: y" /\ untouched)
            /\ (~missing /\ c.loads /\ ~badx /\ ~bady /\ badlabel)
                    => (exc' = "ValueError: label" /\ untouched)
      ]_vars

C4_Witness ==
    /\ call.op = "add_xy_data"
    /\ call.in_csv.exists
    /\ call.x \notin call.in_csv.cols
    /\ call.y \notin call.in_csv.cols
    /\ call.label # None
    /\ exc = "ValueError: x"
    /\ Len(layers) = 3

\* C5: add_basemap with a name that is no key of basemap_tiles raises
\* ValueError and leaves the layers unchanged.
C5_UnknownBasemapRaisesValueError ==
    [][ ( /\ call'.op = "add_basemap"
          /\ call'.basemap.type = "str"
          /\ call'.basemap.v \notin DOMAIN basemap_tiles )
        => (exc' = "ValueError" /\ layers' = layers) ]_vars

\* C6: find_layer_index(name) is the index of the first layer named name and
\* find_layer(name) is the layer at that index; without such a layer they
\* return -1 and None.  Neither call changes the map.
C6_FindLayerAgree ==
    [][ LET first == FirstNamed(layers, call'.name)
            index == find_layer_index(layers, call'.name)
            layer == find_layer(layers, call'.name)
        IN  /\ call'.op = "find_layer_index" =>
                /\ ret' = Some(index)
                /\ index = first
                /\ UNCHANGED mapState
            /\ call'.op = "find_layer" =>
                /\ ret' = layer
                /\ index = first
                /\ layer = IF index = -1 THEN None ELSE Some(layers[index + 1])
                /\ UNCHANGED mapState
      ]_vars

\* Two layers carry the name looked up, and the first of them is not the
\* first layer of the map.
C6_Witness ==
    /\ call.op = "find_layer_index"
    /\ ret = Some(1)
    /\ \E j \in 3..Len(layers) : layers[j].name = call.name

\* C7: set_center(lon, lat, zoom) sets the center to (lat, lon); the zoom
\* becomes zoom when zoom is not None and stays as it was otherwise; layers
\* and controls are unchanged.
C7_SetCenter ==
    [][ call'.op = "set_center" =>
        /\ center' = <<call'.lat, call'.lon>>
        /\ call'.zoom = None => zoom' = zoom
        /\ call'.zoom # None => zoom' = call'.zoom[1]
        /\ layers' = layers
        /\ controls' = controls ]_vars

C7_Witness ==
    /\ call.op = "set_center"
    /\ call.zoom = None
    /\ "zoom" \notin DOMAIN kwargs
    /\ zoom = 6
    /\ center = <<20, -100>>

\* C8: after construction with add_google_map=False no Google tile layer is
\* among the map's layers.
C8_NoGoogleLayerWhenDisabled ==
    ( /\ call.op = "__init__"
      /\ "add_google_map" \in DOMAIN kwargs
      /\ kwargs.add_google_map = FALSE )
    => ~HasGoogleLayer

\* C10: when add_geojson has its data, the GeoJSON layer is added for every
\* info_mode; the attribute info control is added and a hover/click handler
\* is registered on the layer iff info_mode is "on_hover" or "on_click".
C10_InfoMode ==
    [][ ( /\ call'.op = "add_geojson"
          /\ GeojsonLoadRaises(call'.in_geojson) = "none" )
        => LET n == Len(layers')
               im == call'.info_mode
           IN  /\ exc' = "none"
               /\ n = Len(layers) + 1
               /\ SubSeq(layers', 1, n - 1) = layers
               /\ layers'[n].kind = "GeoJSON"
               /\ IF im \in {"on_hover", "on_click"}
                  THEN /\ controls' =
                            Append(controls, Control("AttributeInfo", "bottomright"))
                       /\ layers'[n].handler = im
                  ELSE /\ controls' = controls
                       /\ layers'[n].handler = "none" ]_vars

C10_Witness ==
    /\ call.op = "add_geojson"
    /\ call.info_mode = "hover"
    /\ exc = "none"
    /\ layers[Len(layers)].kind = "GeoJSON"
    /\ layers[Len(layers)].handler = "none"
    /\ \A i \in 1..Len(controls) : controls[i].kind # "AttributeInfo"

\* C1: with a legend_dict that is a dictionary (a template, a valid
\* position, no builtin legend and no sizing keyword), the legend control is
\* added whatever legend_keys and legend_colors are, and its entries are the
\* keys and colors of legend_dict.
C1_LegendDictIgnoresKeysAndColors ==
    ( /\ call.op = "add_legend"
      /\ call.args.legend_dict.type = "dict"
      /\ call.args.position \in AllowedPositions
      /\ call.args.template
      /\ call.args.builtin_legend = None
      /\ call.args.kwargs = <<>> )
    => LET d == call.args.legend_dict
           n == Len(controls)
       IN  /\ exc = "none"
           /\ n > 0
           /\ controls[n].kind = "Legend"
           /\ legend_control = Some(controls[n])
           /\ Len(controls[n].widget.entries) = Len(d.items)
           /\ \A i \in 1..Len(d.items) :
                /\ controls[n].widget.entries[i].key = d.items[i][1]
                /\ controls[n].widget.entries[i].color.v = d.items[i][2].v

\* C9: add_maker_cluster returns the marker cluster it created.
C9_ReturnsMarkerCluster ==
    call.op = "add_maker_cluster"
    => /\ ret # None
       /\ ret[1].kind = "MarkerCluster"
       /\ ret[1].obj = handlers[Len(handlers)].cluster

\* C11: the bbox, mask and rows given to add_vector reach the reader that
\* produces the layer, whatever the extension of the file: the features of
\* the layer the call added were read with the caller's filters.
C11_VectorFiltersApplied ==
    (call.op = "add_vector" /\ exc = "none")
    => LET data == layers[Len(layers)].data[1]
       IN  /\ data.bbox = call.bbox
           /\ data.mask = call.mask
           /\ data.rows = call.rows

\* The inputs C12 lists as rejected.
IsHex7Color(c) == c.type = "str" /\ c.hash /\ c.len = 7
IsLen6Color(c) == c.type = "str" /\ c.len = 6

MalformedColors(items) ==
    /\ ~(\A i \in 1..Len(items) : items[i].type = "tuple")
    /\ ~(\A i \in 1..Len(items) : IsHex7Color(items[i]))
    /\ ~(\A i \in 1..Len(items) : IsLen6Color(items[i]))

MixesTuplesAndStrings(items) ==
    /\ \E i \in 1..Len(items) : items[i].type = "tuple"
    /\ \E i \in 1..Len(items) : items[i].type = "str"

GivenLength(arg, default) == IF arg.type = "NoneType" THEN Len(default) ELSE Len(arg.items)

RejectedLegendInput(a) ==
    \/ a.legend_keys.type \notin {"NoneType", "list"}
    \/ a.legend_colors.type \notin {"NoneType", "list"}
    \/ a.legend_colors.type = "list" /\ MalformedColors(a.legend_colors.items)
    \/ /\ a.legend_keys.type \in {"NoneType", "list"}
       /\ a.legend_colors.type \in {"NoneType", "list"}
       /\ GivenLength(a.legend_keys, DefaultKeys) # GivenLength(a.legend_colors, DefaultColors)
    \/ a.builtin_legend # None /\ a.builtin_legend[1] \notin DOMAIN builtin_legends
    \/ a.builtin_legend = None /\ a.legend_dict.type \notin {"NoneType", "dict"}
    \/ a.position \notin AllowedPositions

\* C12: a call of add_legend with an input the method rejects (keys or colors
\* that are no list, a malformed colors list such as one mixing tuples and
\* strings, lists of different lengths, an unknown builtin legend, a
\* legend_dict that is no dict, a position that is not allowed) prints a
\* warning and returns without raising, and leaves the controls, legend_widget
\* and legend_control as they were.
C12_RejectedLegendWarnsAndReturns ==
    [][(call'.op = "add_legend" /\ call'.args.template
        /\ RejectedLegendInput(call'.args))
       => /\ exc' = "none"
          /\ call'.warned
          /\ UNCHANGED <<controls, legend_widget, legend_control>>]_vars

\* The layout C13 describes: the supplied value of each keyword, None for an
\* omitted one, and the defaults of max_width and max_height.
ClaimedLayout(kw) ==
    [max_width |-> IF "max_width" \in DOMAIN kw THEN Some(kw["max_width"])
                   ELSE IF "width" \in DOMAIN kw THEN None ELSE Some("300px"),
     min_width |-> Kw(kw, "min_width"),
     max_height |-> IF "max_height" \in DOMAIN kw THEN Some(kw["max_height"])
                    ELSE IF "height" \in DOMAIN kw THEN None ELSE Some("400px"),
     min_height |-> Kw(kw, "min_height"),
     height |-> Kw(kw, "height"),
     width |-> Kw(kw, "width")]

\* C13: a call of add_legend with a valid legend and any combination of the
\* sizing keywords succeeds, and the layout of the legend widget holds each
\* supplied keyword's value, None for each omitted one, except max_width
\* "300px" when neither width nor max_width is given and max_height "400px"
\* when neither height nor max_height is given.
C13_LegendSizingApplied ==
    (/\ call.op = "add_legend"
     /\ call.args.template
     /\ call.args.legend_keys = NoneArg
     /\ call.args.legend_colors = NoneArg
     /\ call.args.legend_dict.type \in {"NoneType", "dict"}
     /\ call.args.builtin_legend = None
     /\ call.args.position \in AllowedPositions)
    => /\ exc = "none"
       /\ legend_widget # None
       /\ legend_widget[1].layout = ClaimedLayout(call.args.kwargs)

\* The markers of the cluster with identity obj, a layer of ls.
ClusterMarkers(ls, obj) ==
    LET i == CHOOSE i \in 1..Len(ls) : ls[i].obj = obj IN ls[i].markers

MarkersAt(clicks) == [i \in 1..Len(clicks) |-> Marker(clicks[i])]

LastOf(clicks) == IF clicks = <<>> THEN <<>> ELSE clicks[Len(clicks)]

\* C14: on a map where add_maker_cluster was called once, with event "click"
\* and add_marker True: the call leaves all_clicks and last_click empty and
\* the cluster without markers; a click interaction appends its coordinates
\* to all_clicks and any other interaction leaves all_clicks as it is; after
\* every interaction last_click is the last element of all_clicks (the empty
\* list when there is none) and the cluster holds one marker per element of
\* all_clicks, at its coordinates.  Where the one call had another event, no
\* interaction changes all_clicks, last_click or the layers.
C14_SingleClusterTracksClicks ==
    [][(Len(handlers') = 1 /\ call'.op \in {"add_maker_cluster", "interaction"})
       => LET h == handlers'[1] IN
          IF call'.op = "add_maker_cluster"
          THEN /\ all_clicks' = <<>>
               /\ last_click' = <<>>
               /\ h.add_marker => ClusterMarkers(layers', h.cluster) = <<>>
          ELSE IF h.event # "click"
          THEN UNCHANGED <<all_clicks, last_click, layers>>
          ELSE /\ all_clicks' = IF call'.type = "click"
                                THEN Append(all_clicks, call'.coordinates)
                                ELSE all_clicks
               /\ last_click' = LastOf(all_clicks')
               /\ h.add_marker =>
                     ClusterMarkers(layers', h.cluster) = MarkersAt(all_clicks')]_vars

C14_Witness ==
    /\ Len(handlers) = 1
    /\ handlers[1].event = "click"
    /\ handlers[1].add_marker
    /\ call.op = "interaction"
    /\ call.type = "mousemove"
    /\ all_clicks = << <<20, 10>>, <<40, -100>> >>
    /\ last_click = <<40, -100>>
    /\ ClusterMarkers(layers, handlers[1].cluster)
           = << Marker(<<20, 10>>), Marker(<<40, -100>>) >>

\* The number of markers on the map: those of every layer.
RECURSIVE MarkersOnMap(_)
MarkersOnMap(ls) ==
    IF ls = <<>> THEN 0 ELSE Len(Head(ls).markers) + MarkersOnMap(Tail(ls))

\* C15: on a map where add_maker_cluster was called one or more times (each
\* time with event "click" and add_marker True), a click adds exactly one
\* marker to the map and one element to all_clicks, which was emptied by the
\* most recent call.
C15_OneMarkerPerClick ==
    [][(/\ call'.op = "interaction"
        /\ call'.type = "click"
        /\ Len(handlers) >= 1
        /\ \A k \in 1..Len(handlers) :
              handlers[k].event = "click" /\ handlers[k].add_marker)
       => /\ MarkersOnMap(layers') = MarkersOnMap(layers) + 1
          /\ all_clicks' = Append(all_clicks, call'.coordinates)]_vars

\* C16: a selection in the dropdown of basemap_demo leaves the number of
\* layers unchanged, and the data layer that add_tile_layer or add_geojson
\* added just before the selection, the dropdown being on the map already,
\* is still on the map after it.
C16_SelectionKeepsDataLayers ==
    [][call'.op = "select_basemap"
       => /\ Len(layers') = Len(layers)
          /\ (call.op \in {"add_tile_layer", "add_geojson"} /\ exc = "none")
             => OnMap(layers', layers[Len(layers)])]_vars

\* C17: a call of add_COG_mosaic that raises leaves the layers of the map as
\* they were: neither the mosaic tile layer nor the footprint layer was added.
C17_RaisingMosaicAddsNothing ==
    [][(call'.op = "add_COG_mosaic" /\ exc' # "none") => layers' = layers]_vars

====
